---- MODULE Spec2Model ----
(***************************************************************************)
(* Crawl engine of src/app.py: the process-wide _scrape_state record, the  *)
(* /scrape/start, /scrape/status and /scrape/stop handlers, and the        *)
(* background_scrape worker threads with their private frontier, together  *)
(* with the scraped_pages table they upsert into; the TF-IDF index globals *)
(* with build_tfidf_index, ensure_index_up_to_date and retrieve_tfidf as   *)
(* run by concurrent request threads; and normalize_url over URL strings.  *)
(***************************************************************************)
EXTENDS Naturals, Integers, Sequences, FiniteSets, TLC

\* ------------------------------------------------------------------ bounds
\* Number of background_scrape threads the model lets /scrape/start spawn.
MaxJobs == 2
\* Largest max_pages parameter a Start request carries.
MaxPagesParam == 3
\* Number of request threads that run the index handlers side by side.
MaxThreads == 2
\* Number of upserts the crawl loop makes while the index is watched.
MaxUpserts == 3
\* Longest link, in characters, handed to normalize_url.
MaxLinkLen == 4

\* --------------------------------------------------------------- constants
None == "None"

\* An absent timestamp (started_at, finished_at: None); the clock's readings
\* start above it.
NoTime == 0

\* START_ROOT = "kiit.ac.in", as a sequence of characters.
START_ROOT == <<"k","i","i","t",".","a","c",".","i","n">>

\* str.endswith
EndsWith(s, suffix) ==
    /\ Len(suffix) <= Len(s)
    /\ SubSeq(s, Len(s) - Len(suffix) + 1, Len(s)) = suffix

\* ------------------------------------------------------------- environment
\* The canonical URLs of the modelled web.
URLS == {"home", "lib", "evil", "deep", "ext", "extb", "extc"}

\* urlparse(url).netloc of each canonical URL.
Netloc(u) ==
    CASE u = "home" -> START_ROOT
      [] u = "lib"  -> <<"l","i","b",".">> \o START_ROOT
      [] u = "evil" -> <<"e","v","i","l">> \o START_ROOT
      [] u = "deep" -> <<"l","i","b",".">> \o START_ROOT
      [] OTHER      -> <<"e","x",".","c","o","m">>

\* An anchor's href: the canonical URL it resolves to, and whether it carries
\* a query or a fragment; scheme "mailto" stands for the skipped pseudo-links.
Href(scheme, target, decor) == [scheme |-> scheme, target |-> target, decor |-> decor]

\* soup.find_all("a", href=True) of each page, in document order.
Anchors(u) ==
    CASE u = "home" -> << Href("https", "home", "fragment"),
                          Href("mailto", "home", "none"),
                          Href("https", "lib", "none"),
                          Href("https", "lib", "query"),
                          Href("https", "ext", "none"),
                          Href("https", "evil", "none") >>
      [] u = "lib"  -> << Href("https", "home", "none"),
                          Href("https", "evil", "fragment") >>
      [] u = "evil" -> << Href("https", "deep", "none") >>
      [] u = "ext"  -> << Href("https", "extb", "none"),
                          Href("https", "extc", "none") >>
      [] OTHER      -> << >>

\* soup.title.string and visible_text of each page.
Title(u) == u
Content(u) == "text"

\* What robots.txt disallows when it is fetched and parsed.
RobotsDisallow == {"lib"}

\* Outcomes of rp.read().
RobotsOutcomes == {"parsed", "http404", "unreachable", "undecodable"}

\* Per-URL failures of the loop body that the inner try recovers from.
TransientKinds == {"timeout", "non200", "ctype", "pdferr"}

Jobs == 1..MaxJobs
Threads == 1..MaxThreads

VARIABLES
    state,      \* _scrape_state
    workers,    \* the background_scrape threads: position and locals
    njobs,      \* threads started so far
    hpc,        \* position of the request handler inside scrape_start
    store,      \* scraped_pages, in rowid order
    clock,      \* wall clock, read by time.strftime and CURRENT_TIMESTAMP
    tfidf_vectorizer,   \* _tfidf_vectorizer
    tfidf_matrix,       \* _tfidf_matrix
    tfidf_rows,         \* _tfidf_rows
    last_index_count,   \* _last_index_count
    req,        \* the request threads inside retrieve_tfidf and /reindex
    built,      \* the rows of the latest build_tfidf_index that returned
    norm        \* a call of normalize_url and a second call on its result

\* The four globals of the TF-IDF index.
ivars == <<tfidf_vectorizer, tfidf_matrix, tfidf_rows, last_index_count>>

\* The crawl engine's variables, which the index code never touches.
cvars == <<state, workers, njobs, hpc>>

\* What the crawl engine's steps leave alone.
rest == <<ivars, req, built, norm>>

vars == <<state, workers, njobs, hpc, store, clock, ivars, req, built, norm>>

\* A robotparser.RobotFileParser() as constructed.
NewRp == [disallow_all |-> FALSE, allow_all |-> FALSE, last_checked |-> FALSE,
          disallowed |-> {}]

\* A thread slot not (or no longer) running background_scrape. Beside the
\* locals of background_scrape a slot keeps five records of what happened to
\* the job: "stopped" (scrape_stop was called during its life), "fetched"
\* (the URLs it passed to requests.get, in order), "last" (how its latest
\* loop body ended, when it ended early), "order" (the URLs it added to
\* visited, in order) and "parsed" (the pages whose links it went through).
NoWorker(pc) ==
    [pc |-> pc, start_url |-> None, max_pages |-> 0, queue |-> << >>,
     visited |-> {}, url |-> None, rp |-> NewRp, exc |-> None,
     stopped |-> FALSE, fetched |-> << >>, last |-> None,
     order |-> << >>, parsed |-> {}]

\* Python's None where a vectorizer or a matrix is expected.
PyNone == [kind |-> "None"]

\* A request thread outside the index code. Beside the locals (query, n,
\* rows) a thread keeps "op", the entry point it came through.
NoReq ==
    [pc |-> "idle", op |-> None, query |-> << >>, n |-> 0, rows |-> << >>]

\* No call of normalize_url under watch.
NoNorm == [stage |-> "off"]

\* The process as app.py leaves it once loaded.
Loaded ==
    /\ state = [running |-> FALSE, pages_saved |-> 0, started_at |-> NoTime,
                finished_at |-> NoTime, last_url |-> None, error |-> None]
    /\ workers = [w \in Jobs |-> NoWorker("none")]
    /\ njobs = 0
    /\ hpc = "idle"
    /\ store = << >>
    /\ clock = 1
    /\ tfidf_vectorizer = PyNone
    /\ tfidf_matrix = PyNone
    /\ tfidf_rows = << >>
    /\ last_index_count = 0
    /\ req = [t \in Threads |-> NoReq]
    /\ built = << >>

Init == Loaded /\ norm = NoNorm

\* ---------------------------------------------------------------- helpers
\* time.strftime(...) / CURRENT_TIMESTAMP: the clock's reading.
Now == clock

\* Seeds a Start request may name as start_url.
Seeds == {"home", "ext"}

\* urlparse(url).netloc.endswith(root)
InScope(u) == EndsWith(Netloc(u), START_ROOT)

\* normalize_url(base, link): the link resolved against base, cut down to
\* scheme://netloc/path, that is without its query and fragment.
normalize_url(base, link) == link.target

\* rp.read() inside the try of background_scrape: what each outcome leaves
\* in the parser. A URLError or a UnicodeDecodeError propagates out of
\* read() and is swallowed by "except Exception: pass", so the parser stays
\* as constructed.
ReadRobots(outcome) ==
    CASE outcome = "parsed"  -> [NewRp EXCEPT !.last_checked = TRUE,
                                              !.disallowed = RobotsDisallow]
      [] outcome = "http404" -> [NewRp EXCEPT !.allow_all = TRUE]
      [] OTHER               -> NewRp

\* can_fetch_url(url, rp): rp.can_fetch(USER_AGENT, url), True on exception.
\* RobotFileParser.can_fetch answers False until a robots.txt has been read.
can_fetch_url(url, rp) ==
    IF rp.disallow_all THEN FALSE
    ELSE IF rp.allow_all THEN TRUE
    ELSE IF ~rp.last_checked THEN FALSE
    ELSE url \notin rp.disallowed

\* Index of the row holding url, 0 when there is none.
RowOf(rows, url) ==
    IF \E i \in 1..Len(rows) : rows[i].url = url
    THEN CHOOSE i \in 1..Len(rows) : rows[i].url = url
    ELSE 0

\* INSERT OR IGNORE: a row whose url is already stored is left as it is.
insert_or_ignore(rows, url, title, content, ts) ==
    IF RowOf(rows, url) = 0
    THEN Append(rows, [url |-> url, title |-> title, content |-> content,
                       fetched_at |-> ts])
    ELSE rows

\* upsert_page: INSERT ... ON CONFLICT(url) DO UPDATE SET title, content,
\* fetched_at.
upsert_page(rows, url, title, content, ts) ==
    IF RowOf(rows, url) = 0
    THEN Append(rows, [url |-> url, title |-> title, content |-> content,
                       fetched_at |-> ts])
    ELSE [rows EXCEPT ![RowOf(rows, url)] =
              [url |-> url, title |-> title, content |-> content,
               fetched_at |-> ts]]

\* A loop without the visited check.
AlreadyVisitedNever(visited, url) == FALSE

\* "if url in visited: continue"
AlreadyVisited(visited, url) == url \in visited

\* A loop over the links that puts each new link at the head of the queue.
RECURSIVE EnqueueLinksFirst(_, _, _, _)
EnqueueLinksFirst(queue, visited, base, anchors) ==
    IF anchors = << >> THEN queue
    ELSE LET a == Head(anchors)
             normalized == normalize_url(base, a)
         IN  IF a.scheme = "mailto"
             THEN EnqueueLinksFirst(queue, visited, base, Tail(anchors))
             ELSE IF InScope(normalized) /\ normalized \notin visited
             THEN EnqueueLinksFirst(<<normalized>> \o queue, visited, base,
                                    Tail(anchors))
             ELSE EnqueueLinksFirst(queue, visited, base, Tail(anchors))

\* The loop over soup.find_all("a", href=True): the queue after appending
\* every link that is in scope and not yet visited.
RECURSIVE EnqueueLinks(_, _, _, _)
EnqueueLinks(queue, visited, base, anchors) ==
    IF anchors = << >> THEN queue
    ELSE LET a == Head(anchors)
             normalized == normalize_url(base, a)
         IN  IF a.scheme = "mailto"
             THEN EnqueueLinks(queue, visited, base, Tail(anchors))
             ELSE IF InScope(normalized) /\ normalized \notin visited
             THEN EnqueueLinks(Append(queue, normalized), visited, base, Tail(anchors))
             ELSE EnqueueLinks(queue, visited, base, Tail(anchors))

\* "while queue and len(visited) < max_pages and _scrape_state["running"]"
LoopCondition(wr) ==
    /\ wr.queue # << >>
    /\ Cardinality(wr.visited) < wr.max_pages
    /\ state.running

\* A scrape_start without its running check.
StartAllowedAlways == TRUE

\* "if _scrape_state["running"]: return ... already running"
StartAllowed == ~state.running

\* What "last" records of a loop body that ended early.
Recorded(kind) == IF kind \in TransientKinds THEN "transient" ELSE kind

\* A loop body whose per-URL failure escapes to the outer except.
AfterUrlFailureEscapes(wr, kind) ==
    [wr EXCEPT !.pc = "failed", !.url = None, !.exc = kind, !.last = Recorded(kind)]

\* A loop body that puts a URL whose fetch failed back at the head of the
\* queue to try it again.
AfterUrlFailureRetries(wr, kind) ==
    [wr EXCEPT !.pc = "loop", !.url = None, !.last = Recorded(kind),
               !.queue = <<wr.url>> \o wr.queue,
               !.visited = wr.visited \ {wr.url},
               !.order = SubSeq(wr.order, 1, Len(wr.order) - 1),
               !.fetched = SubSeq(wr.fetched, 1, Len(wr.fetched) - 1)]

\* The worker after a per-URL failure: every non-200, unsupported type and
\* PDF failure takes "time.sleep(delay); continue", every exception inside
\* the inner try takes "except Exception: time.sleep(delay); continue".
AfterUrlFailure(wr, kind) ==
    [wr EXCEPT !.pc = "loop", !.url = None, !.last = Recorded(kind)]

\* ---------------------------------------------------------------- handlers
\* jsonify({"message": "Scraper already running", "status": _scrape_state})
AlreadyRunningResponse == [message |-> "Scraper already running", status |-> state]

\* jsonify({"message": "Scraper started", "status": _scrape_state})
StartedResponse == [message |-> "Scraper started", status |-> state]

\* scrape_start, its test finding a job running.
scrape_start_running ==
    /\ hpc = "idle"
    /\ ~StartAllowed
    /\ hpc' = "start_reject"
    /\ UNCHANGED <<state, workers, njobs, store, clock>>
    /\ UNCHANGED rest

\* scrape_start's early return: AlreadyRunningResponse, read from
\* _scrape_state as it is by then.
scrape_start_running_return ==
    /\ hpc = "start_reject"
    /\ hpc' = "idle"
    /\ UNCHANGED <<state, workers, njobs, store, clock>>
    /\ UNCHANGED rest

\* scrape_start up to t.start(), for a request whose max_pages is at most
\* maxp: the thread exists, background_scrape has not run yet.
scrape_start_with(maxp) ==
    /\ hpc = "idle"
    /\ StartAllowed
    /\ njobs < MaxJobs
    /\ \E su \in Seeds, mp \in 0..maxp :
         workers' = [workers EXCEPT ![njobs + 1] =
                        [NoWorker("spawned") EXCEPT !.start_url = su,
                                                    !.max_pages = mp]]
    /\ njobs' = njobs + 1
    /\ hpc' = "start_return"
    /\ UNCHANGED <<state, store, clock>>
    /\ UNCHANGED rest

scrape_start_spawn == scrape_start_with(MaxPagesParam)

\* scrape_start's last line: returns StartedResponse, read from
\* _scrape_state as it is by then.
scrape_start_return ==
    /\ hpc = "start_return"
    /\ hpc' = "idle"
    /\ UNCHANGED <<state, workers, njobs, store, clock>>
    /\ UNCHANGED rest

\* scrape_status: returns jsonify(_scrape_state).
scrape_status ==
    /\ hpc = "idle"
    /\ UNCHANGED vars

\* scrape_stop; "stopped" records, for each job alive at the call, that a
\* Stop was issued during its life.
scrape_stop ==
    /\ hpc = "idle"
    /\ state' = [state EXCEPT !.running = FALSE]
    /\ workers' = [w \in Jobs |->
                     IF workers[w].pc \in {"none", "done"} THEN workers[w]
                     ELSE [workers[w] EXCEPT !.stopped = TRUE]]
    /\ UNCHANGED <<njobs, hpc, store, clock>>
    /\ UNCHANGED rest

\* ------------------------------------------------------------------ worker
\* background_scrape from the _scrape_state.update at its head through
\* open_raw_connection(), rp.read() and "root = START_ROOT": the thread is
\* then at the while test, or in the outer except when the connection could
\* not be opened.
BeginScrape(w) ==
    /\ workers[w].pc = "spawned"
    /\ state' = [state EXCEPT !.running = TRUE, !.pages_saved = 0,
                              !.started_at = Now, !.finished_at = NoTime,
                              !.error = None]
    /\ clock' = clock + 1
    /\ \/ workers' = [workers EXCEPT ![w].pc = "failed",
                                     ![w].exc = "unable to open database file"]
       \/ \E r \in RobotsOutcomes :
            workers' = [workers EXCEPT ![w].pc = "loop",
                                       ![w].rp = ReadRobots(r),
                                       ![w].queue = <<workers[w].start_url>>,
                                       ![w].visited = {}]
    /\ UNCHANGED <<njobs, hpc, store>>
    /\ UNCHANGED rest

\* The while test and the iteration's head, down to the robots check.
LoopTop(w) ==
    LET wr  == workers[w]
        url == Head(wr.queue)
        popped == [wr EXCEPT !.queue = Tail(wr.queue)]
        marked == [popped EXCEPT !.visited = wr.visited \cup {url},
                                !.order = Append(wr.order, url)]
    IN
    /\ wr.pc = "loop"
    /\ IF ~LoopCondition(wr)
       THEN /\ workers' = [workers EXCEPT ![w].pc = "exit", ![w].last = None]
            /\ UNCHANGED state
       ELSE IF AlreadyVisited(wr.visited, url)
       THEN /\ workers' = [workers EXCEPT ![w] = [popped EXCEPT !.last = None]]
            /\ UNCHANGED state
       ELSE /\ state' = [state EXCEPT !.last_url = url]
            /\ IF ~InScope(url)
               THEN workers' = [workers EXCEPT ![w] =
                                   [marked EXCEPT !.last = None]]
               ELSE IF ~can_fetch_url(url, wr.rp)
               THEN workers' = [workers EXCEPT ![w] =
                                   [marked EXCEPT !.last = None]]
               ELSE workers' = [workers EXCEPT ![w] =
                                   [marked EXCEPT !.pc = "fetch", !.url = url,
                                                  !.last = None,
                                                  !.fetched = Append(wr.fetched, url)]]
    /\ UNCHANGED <<njobs, hpc, store, clock>>
    /\ UNCHANGED rest

\* requests.get and what follows it inside the inner try, failing.
FetchFails(w) ==
    /\ workers[w].pc = "fetch"
    /\ \E kind \in TransientKinds :
         workers' = [workers EXCEPT ![w] = AfterUrlFailure(workers[w], kind)]
    /\ UNCHANGED <<state, njobs, hpc, store, clock>>
    /\ UNCHANGED rest

\* A 200 HTML response whose upsert raises: caught by the inner except.
FetchStoreError(w) ==
    /\ workers[w].pc = "fetch"
    /\ workers' = [workers EXCEPT ![w] = AfterUrlFailure(workers[w], "store_error")]
    /\ UNCHANGED <<state, njobs, hpc, store, clock>>
    /\ UNCHANGED rest

\* A 200 HTML response: upsert, count, enqueue the links.
FetchSaves(w) ==
    LET wr == workers[w] IN
    /\ wr.pc = "fetch"
    /\ store' = upsert_page(store, wr.url, Title(wr.url), Content(wr.url), Now)
    /\ clock' = clock + 1
    /\ state' = [state EXCEPT !.pages_saved = state.pages_saved + 1]
    /\ workers' = [workers EXCEPT ![w] =
                      [wr EXCEPT !.pc = "loop", !.url = None, !.last = None,
                                 !.parsed = wr.parsed \cup {wr.url},
                                 !.queue = EnqueueLinks(wr.queue, wr.visited,
                                                        wr.url, Anchors(wr.url))]]
    /\ UNCHANGED <<njobs, hpc>>
    /\ UNCHANGED rest

\* "except Exception as e: _scrape_state["error"] = str(e)"
Except(w) ==
    /\ workers[w].pc = "failed"
    /\ state' = [state EXCEPT !.error = workers[w].exc]
    /\ workers' = [workers EXCEPT ![w].pc = "exit"]
    /\ UNCHANGED <<njobs, hpc, store, clock>>
    /\ UNCHANGED rest

\* "finally": running False, finished_at; the thread ends, its locals go.
Finally(w) ==
    /\ workers[w].pc = "exit"
    /\ state' = [state EXCEPT !.running = FALSE, !.finished_at = Now]
    /\ clock' = clock + 1
    /\ workers' = [workers EXCEPT ![w] = NoWorker("done")]
    /\ UNCHANGED <<njobs, hpc, store>>
    /\ UNCHANGED rest

\* ======================================================= URL normalization
\* A URL string is a sequence of characters; a run of letters that matters
\* as a whole ("http", "https", a host, a file name) is written as one element.
Letters == {"http", "https", "k", "a"}

\* The characters of links found in pages.
LinkChars == {"http", ":", "/", ".", "?", "#", ";", "a"}

\* urllib.parse.scheme_chars, as far as LinkChars goes.
SchemeChars == Letters \cup {"."}

\* urllib.parse.uses_relative, uses_netloc and uses_params: "", "http" and
\* "https" are in all three, no other scheme written with Letters is.
KnownSchemes == { << >>, <<"http">>, <<"https">> }

\* The pages whose links are normalized: url of background_scrape's loop.
Bases == { <<"https", ":", "/", "/", "k", "/", "a", "/", "a">>,
           <<"http", ":", "/", "/", "k">> }

\* All strings over chars of length n, and of length up to n.
RECURSIVE StringsOfLen(_, _)
StringsOfLen(chars, n) ==
    IF n = 0 THEN { << >> }
    ELSE {<<c>> \o s : c \in chars, s \in StringsOfLen(chars, n - 1)}
StringsUpTo(chars, n) == UNION {StringsOfLen(chars, k) : k \in 0..n}

\* s.find(c): the first position of c in s, 0 when there is none.
Find(s, c) ==
    IF \E i \in DOMAIN s : s[i] = c
    THEN CHOOSE i \in DOMAIN s : s[i] = c /\ \A j \in 1..(i - 1) : s[j] # c
    ELSE 0

\* s.rfind(c)
RFind(s, c) ==
    IF \E i \in DOMAIN s : s[i] = c
    THEN CHOOSE i \in DOMAIN s : s[i] = c /\ \A j \in (i + 1)..Len(s) : s[j] # c
    ELSE 0

\* s[i:], positions counted from 1.
From(s, i) == SubSeq(s, i, Len(s))

\* s.split("/")
RECURSIVE Split(_)
Split(s) ==
    IF Find(s, "/") = 0 THEN <<s>>
    ELSE <<SubSeq(s, 1, Find(s, "/") - 1)>> \o Split(From(s, Find(s, "/") + 1))

\* "/".join(parts)
RECURSIVE Join(_)
Join(parts) ==
    IF parts = << >> THEN << >>
    ELSE IF Len(parts) = 1 THEN parts[1]
    ELSE parts[1] \o <<"/">> \o Join(Tail(parts))

\* urlsplit's search for a scheme: url[:i] before the first ":" when it
\* starts with a letter and holds scheme characters only.
HasScheme(url) ==
    /\ Find(url, ":") > 1
    /\ url[1] \in Letters
    /\ \A j \in 1..(Find(url, ":") - 1) : url[j] \in SchemeChars

\* _splitnetloc(url, 2): where the netloc that follows "//" ends.
NetlocEnd(url) ==
    IF \E i \in 3..Len(url) : url[i] \in {"/", "?", "#"}
    THEN CHOOSE i \in 3..Len(url) :
             /\ url[i] \in {"/", "?", "#"}
             /\ \A j \in 3..(i - 1) : url[j] \notin {"/", "?", "#"}
    ELSE Len(url) + 1

\* urlsplit after the netloc: the fragment is cut at the first "#", then
\* the query at the first "?".
SplitQuery(scheme, netloc, u3, frag) ==
    [scheme |-> scheme, netloc |-> netloc,
     path |-> IF Find(u3, "?") > 0 THEN SubSeq(u3, 1, Find(u3, "?") - 1) ELSE u3,
     query |-> IF Find(u3, "?") > 0 THEN From(u3, Find(u3, "?") + 1) ELSE << >>,
     fragment |-> frag]

SplitFragment(scheme, netloc, u2) ==
    SplitQuery(scheme, netloc,
               IF Find(u2, "#") > 0 THEN SubSeq(u2, 1, Find(u2, "#") - 1) ELSE u2,
               IF Find(u2, "#") > 0 THEN From(u2, Find(u2, "#") + 1) ELSE << >>)

\* urlsplit after the scheme: 'if url[:2] == "//"' takes the netloc.
SplitNetloc(scheme, u1) ==
    IF Len(u1) >= 2 /\ u1[1] = "/" /\ u1[2] = "/"
    THEN SplitFragment(scheme, SubSeq(u1, 3, NetlocEnd(u1) - 1),
                       From(u1, NetlocEnd(u1)))
    ELSE SplitFragment(scheme, << >>, u1)

\* urlsplit(url, scheme)
urlsplit(url, default) ==
    IF HasScheme(url)
    THEN SplitNetloc(SubSeq(url, 1, Find(url, ":") - 1),
                     From(url, Find(url, ":") + 1))
    ELSE SplitNetloc(default, url)

\* _splitparams(path): where the ";" that starts the params is, 0 for none:
\* the first ";" of the last path segment.
ParamsAt(path) ==
    IF Find(From(path, RFind(path, "/") + 1), ";") = 0 THEN 0
    ELSE RFind(path, "/") + Find(From(path, RFind(path, "/") + 1), ";")

\* urlparse on the result of urlsplit: the params leave the path when the
\* scheme is in uses_params.
SplitParams(s) ==
    IF s.scheme \in KnownSchemes /\ ParamsAt(s.path) > 0
    THEN [scheme |-> s.scheme, netloc |-> s.netloc,
          path |-> SubSeq(s.path, 1, ParamsAt(s.path) - 1),
          params |-> From(s.path, ParamsAt(s.path) + 1),
          query |-> s.query, fragment |-> s.fragment]
    ELSE [scheme |-> s.scheme, netloc |-> s.netloc, path |-> s.path,
          params |-> << >>, query |-> s.query, fragment |-> s.fragment]

\* urlparse(url, scheme)
urlparse(url, default) == SplitParams(urlsplit(url, default))

\* urlunsplit on scheme and the rest: scheme, query and fragment are put
\* back with their delimiters.
Delimited(scheme, u1, query, fragment) ==
    (IF scheme # << >> THEN scheme \o <<":">> ELSE << >>)
    \o u1
    \o (IF query # << >> THEN <<"?">> \o query ELSE << >>)
    \o (IF fragment # << >> THEN <<"#">> \o fragment ELSE << >>)

\* urlunsplit((scheme, netloc, url, query, fragment))
urlunsplit(scheme, netloc, u0, query, fragment) ==
    IF \/ netloc # << >>
       \/ /\ scheme # << >>
          /\ scheme \in KnownSchemes
          /\ ~(Len(u0) >= 2 /\ u0[1] = "/" /\ u0[2] = "/")
    THEN Delimited(scheme,
                   <<"/", "/">> \o netloc
                   \o (IF u0 # << >> /\ u0[1] # "/" THEN <<"/">> ELSE << >>)
                   \o u0,
                   query, fragment)
    ELSE Delimited(scheme, u0, query, fragment)

\* urlunparse((scheme, netloc, path, params, query, fragment))
urlunparse(scheme, netloc, path, params, query, fragment) ==
    urlunsplit(scheme, netloc,
               IF params # << >> THEN path \o <<";">> \o params ELSE path,
               query, fragment)

\* segments[1:-1] = filter(None, segments[1:-1])
DropEmptyInside(segments) ==
    IF Len(segments) < 3 THEN segments
    ELSE <<Head(segments)>>
         \o SelectSeq(SubSeq(segments, 2, Len(segments) - 1),
                      LAMBDA seg : seg # << >>)
         \o <<segments[Len(segments)]>>

\* The loop of urljoin over the segments: ".." pops, "." is skipped.
RECURSIVE Resolve(_, _)
Resolve(resolved, segments) ==
    IF segments = << >> THEN resolved
    ELSE IF Head(segments) = <<".", ".">>
    THEN Resolve(IF resolved = << >> THEN << >>
                 ELSE SubSeq(resolved, 1, Len(resolved) - 1), Tail(segments))
    ELSE IF Head(segments) = <<".">>
    THEN Resolve(resolved, Tail(segments))
    ELSE Resolve(Append(resolved, Head(segments)), Tail(segments))

\* base_parts of urljoin: the segments of the base path without the last
\* one, unless that is empty.
BaseParts(parts) ==
    IF parts[Len(parts)] # << >> THEN SubSeq(parts, 1, Len(parts) - 1) ELSE parts

\* segments of urljoin
Segments(bpath, path) ==
    IF path # << >> /\ path[1] = "/" THEN Split(path)
    ELSE DropEmptyInside(BaseParts(Split(bpath)) \o Split(path))

\* "/".join(resolved_path) or "/"
ResolvedPath(segments) ==
    IF Join(IF segments[Len(segments)] \in { <<".">>, <<".", ".">> }
            THEN Append(Resolve(<< >>, segments), << >>)
            ELSE Resolve(<< >>, segments)) = << >>
    THEN <<"/">>
    ELSE Join(IF segments[Len(segments)] \in { <<".">>, <<".", ".">> }
              THEN Append(Resolve(<< >>, segments), << >>)
              ELSE Resolve(<< >>, segments))

\* urljoin once base (b) and url (u) are parsed.
JoinParsed(url, b, u) ==
    IF u.scheme # b.scheme \/ u.scheme \notin KnownSchemes THEN url
    ELSE IF u.netloc # << >>
    THEN urlunparse(u.scheme, u.netloc, u.path, u.params, u.query, u.fragment)
    ELSE IF u.path = << >> /\ u.params = << >>
    THEN urlunparse(u.scheme, b.netloc, b.path, b.params,
                    IF u.query = << >> THEN b.query ELSE u.query, u.fragment)
    ELSE urlunparse(u.scheme, b.netloc, ResolvedPath(Segments(b.path, u.path)),
                    u.params, u.query, u.fragment)

\* urljoin with the base parsed: the url is parsed with the base's scheme
\* as its default.
JoinOnto(url, b) == JoinParsed(url, b, urlparse(url, b.scheme))

\* urljoin(base, url)
urljoin(base, url) ==
    IF base = << >> THEN url
    ELSE IF url = << >> THEN base
    ELSE JoinOnto(url, urlparse(base, << >>))

\* f"{p.scheme}://{p.netloc}{p.path}"
Canonical(p) == p.scheme \o <<":", "/", "/">> \o p.netloc \o p.path

\* normalize_url on strings.
normalize_url_str(base, link) == Canonical(urlparse(urljoin(base, link), << >>))

\* "normalized = normalize_url(url, href)" for one link of one page.
NormalizeLink ==
    /\ norm.stage = "link"
    /\ norm' = [norm EXCEPT !.stage = "normalized",
                             !.out = normalize_url_str(norm.base, norm.link)]
    /\ UNCHANGED <<cvars, store, clock, ivars, req, built>>

\* The same line reached again with the canonical URL as the link: a page
\* (the canonical URL itself, once it is fetched, or another) links to it.
NormalizeAgain ==
    /\ norm.stage = "normalized"
    /\ \E b \in Bases \cup {norm.out} :
         norm' = [norm EXCEPT !.stage = "again", !.base2 = b,
                              !.again = normalize_url_str(b, norm.out)]
    /\ UNCHANGED <<cvars, store, clock, ivars, req, built>>

\* A page and one link found in it.
NormInit ==
    /\ Loaded
    /\ \E b \in Bases, l \in StringsUpTo(LinkChars, MaxLinkLen) :
         norm = [stage |-> "link", base |-> b, link |-> l, out |-> << >>,
                 base2 |-> << >>, again |-> << >>]

NormNext == NormalizeLink \/ NormalizeAgain

NormSpec == NormInit /\ [][NormNext]_vars

\* =============================================================== the index
\* Text is a sequence of tokens: a token is one whitespace character or one
\* word. A title, a page's content and a query are such sequences.
\* TfidfVectorizer(stop_words="english", max_features=50000) as constructed,
\* before fit_transform has succeeded.
UnfittedVectorizer == [kind |-> "unfitted"]

\* What str.strip() and the pattern \s+ take for whitespace.
Whitespace == {" ", "\t"}

\* The words of the corpus that stop_words="english" drops.
StopWords == {"the"}

\* The urls the crawl loop saves while the index is watched, and what a page
\* holds when it is fetched: its title and its visible text, which change
\* from one crawl to the next.
IndexUrls == {"home", "lib"}
PageVersions == { [title |-> <<"kiit">>, content |-> <<"exam">>],
                  [title |-> <<"the">>,  content |-> <<"the">>] }

\* The query strings passed to retrieve_tfidf.
Queries == { << >>, <<" ", "\t">>, <<" ", "exam">> }

\* top_n=5, the default of retrieve_tfidf and the value chat_api passes.
DefaultTopN == 5

\* s[::-1]
Reverse(s) == [i \in 1..Len(s) |-> s[Len(s) + 1 - i]]

\* str.lstrip()
RECURSIVE LStrip(_)
LStrip(s) ==
    IF s # << >> /\ Head(s) \in Whitespace THEN LStrip(Tail(s)) ELSE s

\* str.strip()
strip(s) == Reverse(LStrip(Reverse(LStrip(s))))

\* re.sub(r"\s+", " ", s)
RECURSIVE CollapseWhitespace(_)
CollapseWhitespace(s) ==
    IF s = << >> THEN << >>
    ELSE IF Head(s) \in Whitespace
    THEN <<" ">> \o CollapseWhitespace(LStrip(s))
    ELSE <<Head(s)>> \o CollapseWhitespace(Tail(s))

\* clean_text; html.unescape finds no entity in the modelled texts.
clean_text(s) ==
    IF s = << >> THEN << >> ELSE strip(CollapseWhitespace(s))

\* s[:n]
Slice(s, n) ==
    IF n >= 0
    THEN SubSeq(s, 1, IF n < Len(s) THEN n ELSE Len(s))
    ELSE SubSeq(s, 1, IF Len(s) + n > 0 THEN Len(s) + n ELSE 0)

\* The analyzer of TfidfVectorizer: the words of a text, stop words dropped.
Terms(text) == {text[i] : i \in DOMAIN text} \ (Whitespace \cup StopWords)

\* Occurrences of a word in a text.
CountOf(text, w) == Cardinality({i \in DOMAIN text : text[i] = w})

\* The vocabulary a fit learns from docs (max_features=50000 is never reached
\* by the modelled corpora).
Vocabulary(docs) == UNION {Terms(docs[i]) : i \in DOMAIN docs}

\* One row of the document-term matrix, and the vector of a query: the count
\* of every vocabulary word in the text. The idf weights and the row norms
\* of TfidfVectorizer are left out; Score below normalises.
VectorOf(vocabulary, text) == [w \in vocabulary |-> CountOf(text, w)]

\* fit_transform(docs), when it succeeds: the fitted vectorizer and the
\* matrix, one row per document.
FittedVectorizer(docs) == [kind |-> "fitted", vocabulary |-> Vocabulary(docs)]
FitTransform(docs) ==
    [kind |-> "matrix",
     rows |-> [i \in DOMAIN docs |-> VectorOf(Vocabulary(docs), docs[i])]]

\* fit_transform raises ValueError("empty vocabulary; perhaps the documents
\* only contain stop words") when no document holds a word it keeps.
FitRaises(docs) == Vocabulary(docs) = {}

\* _tfidf_matrix.shape[0]
MatrixRows(m) == IF m = PyNone THEN 0 ELSE Len(m.rows)

RECURSIVE SumOver(_, _)
SumOver(f, S) ==
    IF S = {} THEN 0
    ELSE LET w == CHOOSE x \in S : TRUE IN f[w] + SumOver(f, S \ {w})

Dot(a, b) == SumOver([w \in DOMAIN a |-> a[w] * b[w]], DOMAIN a)

\* cosine_similarity of two vectors, as the square of the cosine in
\* hundredths, rounded down: 0 when either vector is zero.
Score(q, d) ==
    IF Dot(q, q) = 0 \/ Dot(d, d) = 0 THEN 0
    ELSE (100 * Dot(q, d) * Dot(q, d)) \div (Dot(q, q) * Dot(d, d))

\* cosine_similarity(q_vec, _tfidf_matrix).ravel()
cosine_similarity(q_vec, m) == [i \in DOMAIN m.rows |-> Score(q_vec, m.rows[i])]

\* sims.argsort() without the reversal that retrieve_tfidf applies.
RankOf(sims, i) ==
    Cardinality({j \in DOMAIN sims :
                    sims[j] < sims[i] \/ (sims[j] = sims[i] /\ j < i)}) + 1

\* sims.argsort(): the indexes in ascending order of score; on arrays this
\* short numpy sorts by insertion, which keeps equal scores in index order.
argsort(sims) ==
    [k \in DOMAIN sims |-> CHOOSE i \in DOMAIN sims : RankOf(sims, i) = k]

\* sims.argsort()[::-1][:top_n]
AscendingIdxs(sims, top_n) == Slice(argsort(sims), top_n)
TopIdxs(sims, top_n) == Slice(Reverse(argsort(sims)), top_n)

\* {"url": r["url"], "title": r["title"], "content": r["content"]}
IndexRow(r) == [url |-> r.url, title |-> r.title, content |-> r.content]

\* The rows "SELECT url, title, content FROM scraped_pages" returns.
SelectPages(rows) == [i \in DOMAIN rows |-> IndexRow(rows[i])]

\* docs of build_tfidf_index: clean_text(title + " " + content) per row.
DocsOf(rows) ==
    [i \in DOMAIN rows |-> clean_text(rows[i].title \o <<" ">> \o rows[i].content)]

\* retrieve_tfidf from "if _tfidf_vectorizer is None ..." to its return, on
\* the globals it is handed: the list it returns, or the exception it
\* raises. transform() of an unfitted vectorizer raises NotFittedError;
\* _tfidf_rows[i] past the end of the list raises IndexError.
retrieve_on(vectorizer, matrix, rows, query, top_n) ==
    IF vectorizer = PyNone \/ matrix = PyNone \/ rows = << >>
    THEN [raised |-> None, results |-> << >>]
    ELSE IF vectorizer.kind = "unfitted"
    THEN [raised |-> "NotFittedError", results |-> << >>]
    ELSE IF matrix.rows # << >> /\ DOMAIN matrix.rows[1] # vectorizer.vocabulary
    THEN [raised |-> "ValueError", results |-> << >>]
    ELSE LET q_vec == VectorOf(vectorizer.vocabulary, query)
             sims  == cosine_similarity(q_vec, matrix)
             idxs  == TopIdxs(sims, top_n)
         IN IF \E k \in DOMAIN idxs : idxs[k] > Len(rows)
            THEN [raised |-> "IndexError", results |-> << >>]
            ELSE [raised |-> None,
                  results |-> [k \in DOMAIN idxs |->
                      [url |-> rows[idxs[k]].url,
                       title |-> rows[idxs[k]].title,
                       snippet |-> clean_text(Slice(rows[idxs[k]].content, 800)),
                       score |-> sims[idxs[k]]]]]

\* The same on the globals as they are.
retrieve_result(query, top_n) ==
    retrieve_on(tfidf_vectorizer, tfidf_matrix, tfidf_rows, query, top_n)

\* A query that only tests for the empty string.
QueryIsEmpty(query) == query = << >>

\* "if not query.strip()"
QueryIsBlank(query) == strip(query) = << >>

\* The test of ensure_index_up_to_date, n being the COUNT(*) it read.
IndexIsStale(n) ==
    \/ n # last_index_count
    \/ tfidf_vectorizer = PyNone
    \/ tfidf_matrix = PyNone

\* The four globals as one value.
Snapshot == <<tfidf_vectorizer, tfidf_matrix, tfidf_rows, last_index_count>>

\* build_tfidf_index returning to its caller: reindex_endpoint answers and
\* the request ends; ensure_index_up_to_date returns into retrieve_tfidf.
AfterBuild(r) ==
    IF r.op = "reindex" THEN NoReq ELSE [r EXCEPT !.pc = "serve"]

\* background_scrape's upsert_page(db_conn, url, title, content), seen from
\* the index: some crawl thread saves a page.
SavePage(url, title, content) ==
    /\ clock <= MaxUpserts
    /\ store' = upsert_page(store, url, title, content, Now)
    /\ clock' = clock + 1
    /\ UNCHANGED <<cvars, ivars, req, built, norm>>

\* A call of retrieve_tfidf(query, 5), as chat_api makes it.
retrieve_tfidf_call(t) ==
    /\ req[t].pc = "idle"
    /\ \E q \in Queries :
         req' = [req EXCEPT ![t] = [NoReq EXCEPT !.pc = "called", !.op = "query",
                                                 !.query = q]]
    /\ UNCHANGED <<cvars, store, clock, ivars, built, norm>>

\* "if not query.strip(): return []"
retrieve_tfidf_blank(t) ==
    /\ req[t].pc = "called"
    /\ QueryIsBlank(req[t].query)
    /\ req' = [req EXCEPT ![t] = NoReq]
    /\ UNCHANGED <<cvars, store, clock, ivars, built, norm>>

\* ensure_index_up_to_date: SELECT COUNT(*) and the staleness test.
ensure_index_up_to_date(t) ==
    /\ req[t].pc = "called"
    /\ ~QueryIsBlank(req[t].query)
    /\ req' = [req EXCEPT ![t].n = Len(store),
                          ![t].pc = IF IndexIsStale(Len(store)) THEN "build"
                                    ELSE "serve"]
    /\ UNCHANGED <<cvars, store, clock, ivars, built, norm>>

\* reindex_endpoint entering build_tfidf_index.
reindex_endpoint(t) ==
    /\ req[t].pc = "idle"
    /\ req' = [req EXCEPT ![t] = [NoReq EXCEPT !.pc = "build", !.op = "reindex"]]
    /\ UNCHANGED <<cvars, store, clock, ivars, built, norm>>

\* build_tfidf_index from the SELECT to the end of the for loop:
\* _tfidf_rows is emptied and refilled, docs collected.
build_rows(t) ==
    /\ req[t].pc = "build"
    /\ tfidf_rows' = SelectPages(store)
    /\ req' = [req EXCEPT ![t].pc = "fit", ![t].rows = SelectPages(store)]
    /\ UNCHANGED <<cvars, store, clock, tfidf_vectorizer, tfidf_matrix,
                   last_index_count, built, norm>>

\* build_tfidf_index from "if not docs" to the assignment of _tfidf_matrix:
\* the empty corpus returns; otherwise the new vectorizer is assigned and
\* fit_transform either raises, which ends the request, or gives the matrix.
build_fit(t) ==
    LET docs == DocsOf(req[t].rows) IN
    /\ req[t].pc = "fit"
    /\ IF docs = << >>
       THEN /\ tfidf_vectorizer' = PyNone
            /\ tfidf_matrix' = PyNone
            /\ last_index_count' = 0
            /\ built' = req[t].rows
            /\ req' = [req EXCEPT ![t] = AfterBuild(req[t])]
       ELSE IF FitRaises(docs)
       THEN /\ tfidf_vectorizer' = UnfittedVectorizer
            /\ req' = [req EXCEPT ![t] = NoReq]
            /\ UNCHANGED <<tfidf_matrix, last_index_count, built>>
       ELSE /\ tfidf_vectorizer' = FittedVectorizer(docs)
            /\ tfidf_matrix' = FitTransform(docs)
            /\ req' = [req EXCEPT ![t].pc = "count"]
            /\ UNCHANGED <<last_index_count, built>>
    /\ UNCHANGED <<cvars, store, clock, tfidf_rows, norm>>

\* "_last_index_count = len(docs)" and the return to the caller.
build_count(t) ==
    /\ req[t].pc = "count"
    /\ last_index_count' = Len(req[t].rows)
    /\ built' = req[t].rows
    /\ req' = [req EXCEPT ![t] = AfterBuild(req[t])]
    /\ UNCHANGED <<cvars, store, clock, tfidf_vectorizer, tfidf_matrix,
                   tfidf_rows, norm>>

\* retrieve_tfidf after ensure_index_up_to_date: it answers
\* retrieve_result(query, 5) from the globals as they are now.
retrieve_tfidf_serve(t) ==
    /\ req[t].pc = "serve"
    /\ req' = [req EXCEPT ![t] = NoReq]
    /\ UNCHANGED <<cvars, store, clock, ivars, built, norm>>

IndexNext ==
    \/ \E u \in IndexUrls, v \in PageVersions : SavePage(u, v.title, v.content)
    \/ \E t \in Threads : retrieve_tfidf_call(t)
    \/ \E t \in Threads : retrieve_tfidf_blank(t)
    \/ \E t \in Threads : ensure_index_up_to_date(t)
    \/ \E t \in Threads : reindex_endpoint(t)
    \/ \E t \in Threads : build_rows(t)
    \/ \E t \in Threads : build_fit(t)
    \/ \E t \in Threads : build_count(t)
    \/ \E t \in Threads : retrieve_tfidf_serve(t)

IndexSpec == Init /\ [][IndexNext]_vars

\* ------------------------------------------------------- the crawl engine
Next ==
    \/ scrape_start_running
    \/ scrape_start_running_return
    \/ scrape_start_spawn
    \/ scrape_start_return
    \/ scrape_status
    \/ scrape_stop
    \/ \E w \in Jobs : BeginScrape(w)
    \/ \E w \in Jobs : LoopTop(w)
    \/ \E w \in Jobs : FetchFails(w)
    \/ \E w \in Jobs : FetchStoreError(w)
    \/ \E w \in Jobs : FetchSaves(w)
    \/ \E w \in Jobs : Except(w)
    \/ \E w \in Jobs : Finally(w)

Spec == Init /\ [][Next]_vars

\* One step of the thread of job w.
WorkerStep(w) ==
    \/ BeginScrape(w)
    \/ LoopTop(w)
    \/ FetchFails(w)
    \/ FetchStoreError(w)
    \/ FetchSaves(w)
    \/ Except(w)
    \/ Finally(w)

\* The crawl engine with every started thread scheduled again and again and
\* every requests.get and time.sleep returning: a thread that can take a step
\* eventually takes one.
FairSpec == Spec /\ \A w \in Jobs : WF_vars(WorkerStep(w))

\* ------------------------------------------- one job with a larger budget
\* The largest max_pages of the single job: the number of URLs of the
\* modelled site that are in scope.
MaxBfsPages == 4

\* The first POST /scrape/start of the process.
scrape_start_first ==
    /\ njobs = 0
    /\ scrape_start_with(MaxBfsPages)

BfsNext ==
    \/ scrape_start_running
    \/ scrape_start_running_return
    \/ scrape_start_first
    \/ scrape_start_return
    \/ scrape_status
    \/ scrape_stop
    \/ \E w \in Jobs : BeginScrape(w)
    \/ \E w \in Jobs : LoopTop(w)
    \/ \E w \in Jobs : FetchFails(w)
    \/ \E w \in Jobs : FetchStoreError(w)
    \/ \E w \in Jobs : FetchSaves(w)
    \/ \E w \in Jobs : Except(w)
    \/ \E w \in Jobs : Finally(w)

BfsSpec == Init /\ [][BfsNext]_vars

\* ------------------------------------------------------------------ claims
\* Threads inside the while loop of background_scrape.
InLoop == {w \in Jobs : workers[w].pc \in {"loop", "fetch"}}

\* C1: in every reachable state at most one crawl loop is active.
C1_AtMostOneLoop == Cardinality(InLoop) <= 1

\* C2: a Start made while running is true starts no thread and never reaches
\* the spawning branch, and the handler's steps on the already-running
\* branch change neither _scrape_state nor any job, the table or the clock.
C2_StartWhileRunningIsNoOp ==
    [][/\ (state.running /\ hpc = "idle")
            => /\ hpc' \in {"idle", "start_reject"}
               /\ njobs' = njobs
               /\ \A w \in Jobs : workers[w].pc = "none" => workers'[w].pc = "none"
       /\ (hpc' # hpc /\ "start_reject" \in {hpc, hpc'})
            => UNCHANGED <<state, workers, njobs, store, clock>>]_vars

\* A Start is being answered "already running" about a job that has saved a
\* page, while a thread slot is still free.
C2_Witness ==
    /\ hpc = "start_reject"
    /\ state.running
    /\ njobs < MaxJobs
    /\ AlreadyRunningResponse.status.pages_saved >= 1

\* C3: the status a successful Start returns is fresh: running, nothing
\* saved yet, started_at set, finished_at and error absent.
C3_StartReturnsFreshStatus ==
    hpc = "start_return" =>
        LET s == StartedResponse.status
        IN  /\ s.running
            /\ s.pages_saved = 0
            /\ s.started_at # NoTime
            /\ s.finished_at = NoTime
            /\ s.error = None

\* C4: a job on which Stop was called leaves the loop at its next while
\* test: from the top of the loop it goes to the exit and dequeues nothing.
C4_StoppedLoopExits ==
    [][\A w \in Jobs :
          (workers[w].stopped /\ workers[w].pc = "loop" /\ workers'[w] # workers[w])
              => workers'[w].pc = "exit"]_vars

\* C5: a job visits at most max_pages URLs, none at all when max_pages is 0,
\* and a job that leaves its loop ends with running false, finished_at set
\* and error absent.
C5_CapThenCompleted ==
    [][\A w \in Jobs :
          /\ Cardinality(workers'[w].visited) <= workers'[w].max_pages
          /\ workers'[w].max_pages = 0 =>
                 workers'[w].visited = {} /\ workers'[w].fetched = << >>
          /\ (workers[w].pc = "exit" /\ workers[w].exc = None /\ workers'[w].pc = "done")
                 => /\ state'.running = FALSE
                    /\ state'.finished_at # NoTime
                    /\ state'.error = None]_vars

NoDuplicates(seq) == \A i, j \in 1..Len(seq) : seq[i] = seq[j] => i = j

\* C6: within one job no URL is fetched twice, a URL in flight is already
\* marked visited, and scraped_pages holds at most one row per url.
C6_NoUrlTwice ==
    /\ \A w \in Jobs :
          /\ NoDuplicates(workers[w].fetched)
          /\ \A i \in 1..Len(workers[w].fetched) :
                 workers[w].fetched[i] \in workers[w].visited
          /\ workers[w].pc = "fetch" => workers[w].url \in workers[w].visited
    /\ \A i, j \in 1..Len(store) : store[i].url = store[j].url => i = j

\* A job holds an already visited URL in its queue, and a row of the table
\* was written again after a later row was inserted.
C6_Witness ==
    /\ \E w \in Jobs : \E i \in 1..Len(workers[w].queue) :
          workers[w].queue[i] \in workers[w].visited
    /\ \E i, j \in 1..Len(store) : i < j /\ store[i].fetched_at > store[j].fetched_at

\* inScope of the URL policy: the host equals the root domain or is a
\* subdomain of it.
HostInRootDomain(u) ==
    \/ Netloc(u) = START_ROOT
    \/ EndsWith(Netloc(u), <<".">> \o START_ROOT)

\* C7: a URL whose host is neither the root domain nor a subdomain of it is
\* never enqueued from a page, never fetched and never stored.
C7_OutOfScopeNeverCrawled ==
    /\ \A i \in 1..Len(store) : HostInRootDomain(store[i].url)
    /\ \A w \in Jobs :
          /\ workers[w].pc = "fetch" => HostInRootDomain(workers[w].url)
          /\ \A i \in 1..Len(workers[w].queue) :
                 workers[w].queue[i] # workers[w].start_url
                     => HostInRootDomain(workers[w].queue[i])

\* C8: a job whose upsert fails because the store is unavailable leaves the
\* loop through the outer except.
C8_StoreFailureIsFatal ==
    \A w \in Jobs :
        workers[w].last = "store_error" => workers[w].pc \in {"failed", "exit"}

RobotsReadFailed(rp) ==
    rp = ReadRobots("unreachable") \/ rp = ReadRobots("undecodable")

\* C10: when robots.txt could not be fetched or parsed, every in-scope URL
\* is allowed.
C10_RobotsFailOpen ==
    \A w \in Jobs :
        (workers[w].pc \in {"loop", "fetch"} /\ RobotsReadFailed(workers[w].rp))
            => \A u \in URLS : InScope(u) => can_fetch_url(u, workers[w].rp)

\* The pages a page links to, pseudo-links left out.
LinkTargets(u) ==
    {Anchors(u)[i].target :
        i \in {j \in DOMAIN Anchors(u) : Anchors(u)[j].scheme # "mailto"}}

\* A seed and the pages it links to.
SitePages(seed) == {seed} \cup LinkTargets(seed)

\* A site whose pages are all on the seed's host and all linked from the seed.
SameHostSite(seed) ==
    \A p \in SitePages(seed) :
        /\ Netloc(p) = Netloc(seed)
        /\ LinkTargets(p) \subseteq SitePages(seed)

\* C13: a job that is the only one, is not stopped, meets no error, is not
\* held back by robots.txt, and was started at the seed of a same-host site
\* of no more than max_pages pages, finishes with pages_saved equal to the
\* number of pages and one stored row per page.
C13_SameHostSiteFullyCrawled ==
    [][\A w \in Jobs :
          ( /\ workers[w].pc = "exit"
            /\ workers'[w].pc = "done"
            /\ njobs = 1
            /\ ~workers[w].stopped
            /\ workers[w].exc = None
            /\ workers[w].start_url \in URLS
            /\ SameHostSite(workers[w].start_url)
            /\ Cardinality(SitePages(workers[w].start_url)) <= workers[w].max_pages
            /\ \A p \in SitePages(workers[w].start_url) :
                   can_fetch_url(p, workers[w].rp)
            /\ \A i \in DOMAIN workers[w].fetched :
                   RowOf(store, workers[w].fetched[i]) # 0 )
          => /\ state'.pages_saved = Cardinality(SitePages(workers[w].start_url))
             /\ \A p \in SitePages(workers[w].start_url) :
                    Cardinality({i \in DOMAIN store' : store'[i].url = p}) = 1]_vars

\* =========================================================== index claims
\* A thread about to answer a non-blank query, whose answer is a list.
Served(t) ==
    /\ req[t].pc = "serve"
    /\ retrieve_result(req[t].query, DefaultTopN).raised = None

\* The latest row count the query of thread t saw: the rows its own rebuild
\* selected, or else the COUNT(*) it read (the table only grows).
ObservedCount(t) ==
    IF Len(req[t].rows) > req[t].n THEN Len(req[t].rows) ELSE req[t].n

\* C11: a non-blank query is served from a snapshot whose indexed_count is
\* the row count the query observed, and every page that was stored when the
\* query counted the rows is among the indexed rows.
C11_ServedFromFreshSnapshot ==
    \A t \in Threads :
        Served(t) =>
            /\ last_index_count = ObservedCount(t)
            /\ \A i \in 1..req[t].n :
                   \E k \in DOMAIN tfidf_rows : tfidf_rows[k].url = store[i].url

\* C12: upserting a url that is already stored, with another title and
\* content, leaves the table with the same number of rows, exactly one of
\* them for that url, holding the new title, the new content and the time of
\* this upsert; the rows of all other urls are as they were.
C12_UpsertOverwritesInPlace ==
    [][\A u \in IndexUrls, v \in PageVersions :
          ( /\ SavePage(u, v.title, v.content)
            /\ RowOf(store, u) # 0
            /\ store[RowOf(store, u)].title # v.title
            /\ store[RowOf(store, u)].content # v.content )
          => /\ Len(store') = Len(store)
             /\ Cardinality({i \in DOMAIN store' : store'[i].url = u}) = 1
             /\ \A i \in DOMAIN store' :
                    IF store'[i].url = u
                    THEN /\ store'[i].title = v.title
                         /\ store'[i].content = v.content
                         /\ store'[i].fetched_at = clock
                         /\ store'[i].fetched_at > store[i].fetched_at
                    ELSE store'[i] = store[i]]_vars

\* A table of two pages, the first of them saved again after the second.
C12_Witness ==
    /\ Len(store) = 2
    /\ store[1].url # store[2].url
    /\ store[1].fetched_at > store[2].fetched_at

\* The snapshot a build over rows leaves when it succeeds.
SnapshotOf(rows) ==
    IF rows = << >> THEN <<PyNone, PyNone, << >>, 0>>
    ELSE <<FittedVectorizer(DocsOf(rows)), FitTransform(DocsOf(rows)), rows,
           Len(rows)>>

\* The globals hold one whole snapshot of at least one document.
WholeSnapshot ==
    /\ tfidf_rows # << >>
    /\ ~FitRaises(DocsOf(tfidf_rows))
    /\ Snapshot = SnapshotOf(tfidf_rows)

\* Non-blank queries and values of top_n to rank with.
RankQueries == { <<"exam">>, <<"kiit">>, <<"the">>, <<" ", "exam">>,
                 <<"exam", " ", "kiit", " ", "kiit">> }
TopNs == {0, 1, 2, DefaultTopN}

\* The scores of all indexed documents for a query.
SimsOf(q) ==
    cosine_similarity(VectorOf(tfidf_vectorizer.vocabulary, q), tfidf_matrix)

\* C14: for a non-blank query against a whole snapshot of n >= 1 documents,
\* retrieve_tfidf(query, top_n) returns exactly min(top_n, n) results, each
\* a different indexed document with its own score, in descending order of
\* score, and no document left out scores higher than one returned.
C14_TopNRanking ==
    WholeSnapshot =>
        \A q \in RankQueries, k \in TopNs :
            LET n   == Len(tfidf_rows)
                out == retrieve_result(q, k)
                res == out.results
            IN /\ out.raised = None
               /\ Len(res) = IF k < n THEN k ELSE n
               /\ \A a \in DOMAIN res :
                      \E i \in DOMAIN tfidf_rows :
                          /\ tfidf_rows[i].url = res[a].url
                          /\ tfidf_rows[i].title = res[a].title
                          /\ SimsOf(q)[i] = res[a].score
               /\ \A a, b \in DOMAIN res :
                      /\ a # b => res[a].url # res[b].url
                      /\ a < b => res[a].score >= res[b].score
               /\ \A i \in DOMAIN tfidf_rows :
                      (\A a \in DOMAIN res : res[a].url # tfidf_rows[i].url)
                          => \A a \in DOMAIN res : SimsOf(q)[i] <= res[a].score

\* A whole snapshot of two documents that score differently for "exam", the
\* lower one in the first row.
C14_Witness ==
    /\ WholeSnapshot
    /\ Len(tfidf_rows) = 2
    /\ SimsOf(<<"exam">>)[1] < SimsOf(<<"exam">>)[2]
    /\ Len(retrieve_result(<<"exam">>, 1).results) = 1

\* A query that is empty or holds nothing but whitespace.
AllWhitespace(q) == \A i \in DOMAIN q : q[i] \in Whitespace

\* C15: a call of retrieve_tfidf with an empty or whitespace-only query
\* returns in its next step, straight from the call, without reading the row
\* count, entering a rebuild or reaching the ranking code, and that step
\* leaves the table and the four globals of the snapshot as they were.
C15_BlankQueryHasNoEffect ==
    [][\A t \in Threads :
          ( /\ req[t].pc = "called"
            /\ AllWhitespace(req[t].query)
            /\ req'[t] # req[t] )
          => /\ req'[t] = NoReq
             /\ UNCHANGED <<tfidf_vectorizer, tfidf_matrix, tfidf_rows,
                            last_index_count, store>>]_vars

\* A whitespace-only query has been passed to retrieve_tfidf while the
\* snapshot is stale: pages are stored and the index was never built.
C15_Witness ==
    \E t \in Threads :
        /\ req[t].pc = "called"
        /\ req[t].query # << >>
        /\ AllWhitespace(req[t].query)
        /\ Len(store) > 0
        /\ tfidf_vectorizer = PyNone
        /\ last_index_count # Len(store)

\* C17: whenever a query is about to read the globals to answer, they hold
\* one build's snapshot: rows, matrix and indexed_count agree in number, and
\* vectorizer, matrix and indexed_count are those of a build over these rows.
C17_NoMixedSnapshot ==
    \A t \in Threads :
        req[t].pc = "serve" =>
            /\ Len(tfidf_rows) = MatrixRows(tfidf_matrix)
            /\ Len(tfidf_rows) = last_index_count
            /\ Snapshot = SnapshotOf(tfidf_rows)

\* Thread t is the only one inside a request.
Alone(t) == \A o \in Threads \ {t} : req[o].pc = "idle"

\* The step of thread t in which fit_transform raises over a non-empty corpus.
FitFails(t) ==
    /\ req[t].pc = "fit"
    /\ DocsOf(req[t].rows) # << >>
    /\ FitRaises(DocsOf(req[t].rows))
    /\ req'[t] = NoReq

\* The step of thread t in which build_tfidf_index finds the corpus empty.
FitEmpty(t) ==
    /\ req[t].pc = "fit"
    /\ DocsOf(req[t].rows) = << >>
    /\ req'[t] # req[t]

\* The empty corpus gives the empty snapshot.
EmptyCorpusEmptySnapshot ==
    [][\A t \in Threads :
          (FitEmpty(t) /\ Alone(t) /\ tfidf_rows = req[t].rows) =>
              Snapshot' = SnapshotOf(<< >>)]_vars

\* C18: when a rebuild over a non-empty corpus fails in fit_transform, the
\* globals afterwards are the snapshot of the last build that completed
\* (vectorizer, matrix, rows and indexed_count); when the corpus is empty the
\* rebuild leaves the empty snapshot: no vectorizer, no rows, indexed_count 0.
C18_FailedBuildKeepsSnapshot ==
    [][\A t \in Threads :
          /\ (FitFails(t) /\ Alone(t)) => Snapshot' = SnapshotOf(built)
          /\ (FitEmpty(t) /\ Alone(t) /\ tfidf_rows = req[t].rows) =>
                 Snapshot' = SnapshotOf(<< >>)]_vars

\* =========================================================== termination
\* Every job started so far has ended.
AllJobsEnded ==
    /\ njobs > 0
    /\ \A w \in 1..njobs : workers[w].pc = "done"

\* C19: every started job ends (its thread leaves the loop and runs the
\* finally block), the step that ends it leaves running false and finished_at
\* set, and when every started job has ended the state is idle: running is
\* false and finished_at is set.
C19_EveryJobReturnsToIdle ==
    /\ \A w \in Jobs : (workers[w].pc = "spawned") ~> (workers[w].pc = "done")
    /\ [][\A w \in Jobs :
             (workers[w].pc # "done" /\ workers'[w].pc = "done") =>
                 (~state'.running /\ state'.finished_at # NoTime)]_vars
    /\ [](AllJobsEnded => (~state.running /\ state.finished_at # NoTime))

\* Both jobs have ended, one of them by a fatal error, and the state is idle.
C19_Witness ==
    /\ njobs = MaxJobs
    /\ AllJobsEnded
    /\ state.error # None
    /\ ~state.running
    /\ state.finished_at # NoTime

\* ========================================================= breadth first
\* The URLs within k links of seed, over the links of the pages in parsed.
RECURSIVE Within(_, _, _)
Within(seed, parsed, k) ==
    IF k = 0 THEN {seed}
    ELSE LET W == Within(seed, parsed, k - 1)
         IN  W \cup UNION {LinkTargets(p) : p \in W \cap parsed}

\* The distance given to a URL that no parsed page leads to.
Unreached == Cardinality(URLS) + 1

\* The link distance of u from seed over the links of the pages in parsed.
Distance(seed, parsed, u) ==
    IF u \notin Within(seed, parsed, Cardinality(URLS)) THEN Unreached
    ELSE CHOOSE k \in 0..Cardinality(URLS) :
            /\ u \in Within(seed, parsed, k)
            /\ \A j \in 0..(k - 1) : u \notin Within(seed, parsed, j)

\* The depth of u in job w.
Depth(w, u) == Distance(workers[w].start_url, workers[w].parsed, u)

\* C20: within a job the URLs are visited in order of their link distance
\* from the seed over the links of the pages the job parsed: a URL visited
\* earlier is never deeper than one visited later, and no visited URL is
\* deeper than a URL that is in the queue and not yet visited.
C20_BreadthFirstOrder ==
    \A w \in Jobs :
        LET wr == workers[w] IN
        /\ \A i, j \in DOMAIN wr.order :
               i < j => Depth(w, wr.order[i]) <= Depth(w, wr.order[j])
        /\ \A q \in DOMAIN wr.queue :
               wr.queue[q] \notin wr.visited =>
                   \A v \in wr.visited : Depth(w, v) <= Depth(w, wr.queue[q])

\* A job has visited the seed, two URLs at depth 1 and then one at depth 2.
C20_Witness ==
    \E w \in Jobs :
        /\ Len(workers[w].order) = 4
        /\ Depth(w, workers[w].order[2]) = 1
        /\ Depth(w, workers[w].order[3]) = 1
        /\ Depth(w, workers[w].order[4]) = 2

\* The step in which the query of thread t, the only request running, finds
\* the index up to date and goes on to answer from it.
FoundUpToDate(t) ==
    /\ req[t].pc = "called"
    /\ req'[t].pc = "serve"
    /\ Alone(t)

\* The step in which the rebuild made for the query of thread t, the only
\* request running, returns, no page having changed and no other rebuild
\* having selected rows since it selected its own.
RebuiltUnwritten(t) ==
    /\ req[t].pc \in {"fit", "count"}
    /\ req'[t].pc = "serve"
    /\ Alone(t)
    /\ req[t].rows = SelectPages(store)
    /\ tfidf_rows = req[t].rows

\* A query that rebuilds answers from the rows of the table.
RebuiltSnapshotMatchesStore ==
    [][\A t \in Threads :
          RebuiltUnwritten(t) => tfidf_rows' = SelectPages(store')]_vars

\* C21: a non-blank query that runs with no other request and no write going
\* on answers from snapshot rows that are the table's current rows (url,
\* title, content), whether it found the index up to date or rebuilt it.
C21_SnapshotRowsMatchStore ==
    [][\A t \in Threads :
          /\ FoundUpToDate(t) => tfidf_rows' = SelectPages(store')
          /\ RebuiltUnwritten(t) => tfidf_rows' = SelectPages(store')]_vars

\* =================================================== normalization claims
\* C16: normalizing the result of normalize_url again, against itself or
\* against any page, returns it unchanged, and the result carries neither a
\* query nor a fragment.
C16_NormalizeIdempotent ==
    norm.stage = "again" =>
        /\ norm.again = norm.out
        /\ \A i \in DOMAIN norm.out : norm.out[i] \notin {"?", "#"}

\* The second half of C16 alone.
NoQueryNoFragment ==
    norm.stage \in {"normalized", "again"} =>
        \A i \in DOMAIN norm.out : norm.out[i] \notin {"?", "#"}

\* C16 for results that name a host.
IdempotentWithHost ==
    (norm.stage = "again" /\ urlparse(norm.out, << >>).netloc # << >>) =>
        norm.again = norm.out

====
